---- MODULE Spec2Model ----
(***************************************************************************)
(* Model of excel_to_html_converter.py: the number formatter, the workbook *)
(* loader (read_excel_data), the renderer (generate_html), the command     *)
(* line driver (main) and the cross-navigation script of the generated     *)
(* document.                                                               *)
(*                                                                         *)
(* Text is modelled as a sequence of characters, each character being a    *)
(* one-element TLA+ string.  TLA+ strings are ASCII, so the Japanese       *)
(* characters of the source are written by their readings:                 *)
(*   "sou" = U+7DCF, "kei" = U+8A08, "gou" = U+5408  (the total markers    *)
(*   are <<"sou","kei">> and <<"gou","kei">>, the column label <<"kei">>), *)
(*   "dash" = U+FF0D, the full-width placeholder of blank cells,           *)
(*   "hokkai", "aomori" = prefecture names taken as one character each.    *)
(***************************************************************************)
EXTENDS Integers, Sequences, FiniteSets, TLC

VARIABLES
    fmtArg,     \* format_number: the argument `value`
    fmtRet,     \* format_number: <<>> before the call, <<text>> once returned
    pathname,   \* the viewer's window.location.pathname
    crossNav,   \* the links in the cross-nav placeholder (<<>>: empty)
    navRan,     \* the cross-navigation script has run
    pc,         \* main: where the run is
    argc,       \* len(sys.argv)
    srcExists,  \* Path(excel_file).exists()
    workbook,   \* the sheets of the loaded workbook, in wb.sheetnames order
    wbOpen,     \* the workbook handle is open
    readCalled, \* read_excel_data has been entered
    sheetIdx,   \* read_excel_data: the sheet the loop is at
    data,       \* read_excel_data: the dict built so far
    destFile,   \* the destination file: <<>> untouched, <<doc>> written
    printed,    \* the messages written to standard output
    exc,        \* the uncaught exception that ended the run, or "none"
    exitStatus, \* the exit status of the process, -1 while running
    viewDoc,       \* the viewer: the buttons and panels of the open document
    activeButtons, \* the viewer: the tab buttons (by position) with class 'active'
    activePanels,  \* the viewer: the panels (by position) with class 'active'
    scrollLeft,    \* the viewer: each panel's table-wrapper, "start" or "end"
    timers,        \* the viewer: the tabName of every pending setTimeout callback
    lastClicked,   \* the viewer: the button clicked last, 0 before any click
    loaded         \* the viewer: the window's load event has fired

fmtVars == <<fmtArg, fmtRet>>
navVars == <<pathname, crossNav, navRan>>
mainVars == <<pc, argc, srcExists, workbook, wbOpen, readCalled, sheetIdx, data,
              destFile, printed, exc, exitStatus>>
viewVars == <<viewDoc, activeButtons, activePanels, scrollLeft, timers, lastClicked, loaded>>
vars == <<fmtVars, navVars, mainVars, viewVars>>

\* No document is open in a viewer.
ViewOff ==
    /\ viewDoc = [buttons |-> <<>>, panels |-> <<>>]
    /\ activeButtons = {} /\ activePanels = {} /\ scrollLeft = <<>>
    /\ timers = <<>> /\ lastClicked = 0 /\ loaded = FALSE

(***************************************************************************)
(* Bounds of the model.                                                    *)
(***************************************************************************)
MaxStrLen == 5      \* longest text given to format_number
MaxPathLen == 4     \* longest pathname, after its leading '/'
MaxExtent == 6      \* largest ws.max_row + ws.max_column of a lone sheet
MaxSheets == 3      \* most sheets in a workbook
MaxArgc == 4        \* largest len(sys.argv)
MaxTimers == 2      \* most setTimeout callbacks pending at once

(***************************************************************************)
(* Python values held by worksheet cells.                                  *)
(***************************************************************************)
None == [t |-> "None"]
StrV(s) == [t |-> "str", s |-> s]
IntV(n) == [t |-> "int", n |-> n]
\* A float is identified by its repr(), the shortest text that reads back
\* to it, e.g. FloatV(<<"1","2","3","4",".","5","6">>).
FloatV(r) == [t |-> "float", s |-> r]

Digits == {"0", "1", "2", "3", "4", "5", "6", "7", "8", "9"}
DigitChar(d) == <<"0", "1", "2", "3", "4", "5", "6", "7", "8", "9">>[d + 1]
DigitVal(c) == CHOOSE d \in 0..9 : DigitChar(d) = c

\* The decimal digits of a natural number.
RECURSIVE NatToStr(_)
NatToStr(n) == IF n < 10 THEN <<DigitChar(n)>>
               ELSE NatToStr(n \div 10) \o <<DigitChar(n % 10)>>

\* The value of a digit sequence (0 for the empty one).
RECURSIVE StrToNat(_)
StrToNat(ds) == IF ds = <<>> THEN 0
                ELSE 10 * StrToNat(SubSeq(ds, 1, Len(ds) - 1)) + DigitVal(ds[Len(ds)])

\* str(value)
PyStr(value) ==
    CASE value.t = "str" -> value.s
      [] value.t = "float" -> value.s
      [] value.t = "int" -> IF value.n < 0 THEN <<"-">> \o NatToStr(0 - value.n)
                            ELSE NatToStr(value.n)
      [] value.t = "None" -> <<"N", "o", "n", "e">>

\* Python truth value: None, '', 0 and 0.0 are false.
Truthy(value) ==
    CASE value.t = "None" -> FALSE
      [] value.t = "str" -> value.s # <<>>
      [] value.t = "int" -> value.n # 0
      [] value.t = "float" -> \E i \in 1..Len(value.s) : value.s[i] \in Digits \ {"0"}

\* s.replace(',', '')
RECURSIVE RemoveCommas(_)
RemoveCommas(s) ==
    IF s = <<>> THEN <<>>
    ELSE IF Head(s) = "," THEN RemoveCommas(Tail(s))
    ELSE <<Head(s)>> \o RemoveCommas(Tail(s))

(***************************************************************************)
(* float(text), for text over digits, '.', '+', '-' and non-numeric        *)
(* characters: an optional sign, then digits with at most one point and at *)
(* least one digit.  (Exponents, white space, underscores, "inf" and "nan" *)
(* are not characters of the model's texts.)  The result keeps the exact   *)
(* decimal: the sign, the digits before and after the point.               *)
(***************************************************************************)
IndexOfPoint(s) == IF \E i \in 1..Len(s) : s[i] = "."
                   THEN CHOOSE i \in 1..Len(s) : s[i] = "." /\ \A j \in 1..(i - 1) : s[j] # "."
                   ELSE 0

PyFloat(text) ==
    LET signed == text # <<>> /\ Head(text) \in {"-", "+"}
        body == IF signed THEN Tail(text) ELSE text
        pt == IndexOfPoint(body)
        ip == IF pt = 0 THEN body ELSE SubSeq(body, 1, pt - 1)
        fp == IF pt = 0 THEN <<>> ELSE SubSeq(body, pt + 1, Len(body))
    IN  [ok |-> /\ \A i \in 1..Len(ip) : ip[i] \in Digits
                /\ \A i \in 1..Len(fp) : fp[i] \in Digits
                /\ Len(ip) + Len(fp) > 0,
         neg |-> signed /\ Head(text) = "-",
         ip |-> ip,
         fp |-> fp]

\* num.is_integer()
IsInteger(num) == \A i \in 1..Len(num.fp) : num.fp[i] = "0"

\* format(n, ','): the digits in groups of three from the right.
\* (Faulty variant: no separator at all.)
GroupDigits_Ungrouped(ds) == ds
RECURSIVE GroupDigits(_)
GroupDigits(ds) ==
    IF Len(ds) <= 3 THEN ds
    ELSE GroupDigits(SubSeq(ds, 1, Len(ds) - 3)) \o <<",">> \o SubSeq(ds, Len(ds) - 2, Len(ds))

\* f"{int(num):,}"
FormatInt(num) ==
    LET n == StrToNat(num.ip)
    IN  (IF num.neg /\ n # 0 THEN <<"-">> ELSE <<>>) \o GroupDigits(NatToStr(n))

\* The digits of the fraction after its first one, against one half of a
\* tenth: -1 below, 0 exactly half, 1 above.
CompareHalf(rest) ==
    IF rest = <<>> \/ DigitVal(rest[1]) < 5 THEN -1
    ELSE IF DigitVal(rest[1]) > 5 THEN 1
    ELSE IF \E i \in 2..Len(rest) : rest[i] # "0" THEN 1
    ELSE 0

\* The significand of a double has 53 bits.
MantissaBits == 53

RECURSIVE BitLen(_)
BitLen(q) == IF q = 0 THEN 0 ELSE 1 + BitLen(q \div 2)

\* The binary expansion of r/20 to `left` more significant bits, rounded to
\* nearest-even: the sign of (the double - the exact value).
RECURSIVE RoundBinary(_, _, _, _)
RoundBinary(r, left, started, lastbit) ==
    IF r = 0 THEN 0
    ELSE IF left = 0
         THEN IF 2 * r > 20 THEN 1
              ELSE IF 2 * r < 20 THEN -1
              ELSE IF lastbit = 1 THEN 1 ELSE -1
    ELSE LET b == (2 * r) \div 20
             r2 == (2 * r) % 20
         IN  IF ~started /\ b = 0 THEN RoundBinary(r2, left, FALSE, 0)
             ELSE RoundBinary(r2, left - 1, TRUE, b)

\* The double nearest to the decimal tie (2*tenths + 1)/20, against that
\* decimal: -1 when the double lies below it, 1 above, 0 when it is exact.
DoubleVsTie(tenths) ==
    LET q == (2 * tenths + 1) \div 20
        r == (2 * tenths + 1) % 20
    IN  IF q = 0 THEN RoundBinary(r, MantissaBits, FALSE, 0)
        ELSE RoundBinary(r, MantissaBits - BitLen(q), TRUE, q % 2)

\* f"{num:,.1f}": the double nearest to the decimal, correctly rounded to one
\* decimal place (ties of the double itself go to the even digit).
FormatFixed1(num) ==
    LET f1 == IF num.fp = <<>> THEN 0 ELSE DigitVal(num.fp[1])
        rest == IF num.fp = <<>> THEN <<>> ELSE Tail(num.fp)
        tenths == 10 * StrToNat(num.ip) + f1
        half == CompareHalf(rest)
        up == IF half # 0 THEN half = 1
              ELSE IF DoubleVsTie(tenths) # 0 THEN DoubleVsTie(tenths) = 1
              ELSE tenths % 2 = 1
        r == IF up THEN tenths + 1 ELSE tenths
    IN  (IF num.neg THEN <<"-">> ELSE <<>>)
        \o GroupDigits(NatToStr(r \div 10)) \o <<".", DigitChar(r % 10)>>

PLACEHOLDER == <<"dash">>

\* format_number(value)
format_number(value) ==
    IF value = StrV(PLACEHOLDER) \/ value = StrV(<<>>) \/ value = None
    THEN PLACEHOLDER
    ELSE LET num == PyFloat(RemoveCommas(PyStr(value)))
         IN  IF num.ok
             THEN IF IsInteger(num) THEN FormatInt(num) ELSE FormatFixed1(num)
             ELSE PyStr(value)

(***************************************************************************)
(* Texts over an alphabet, up to a length.                                 *)
(***************************************************************************)
RECURSIVE TextsUpTo(_, _)
TextsUpTo(alphabet, n) ==
    IF n = 0 THEN {<<>>}
    ELSE LET shorter == TextsUpTo(alphabet, n - 1)
         IN  shorter \cup {Append(t, c) : t \in {u \in shorter : Len(u) = n - 1},
                                          c \in alphabet}

\* `sub in s`, s.includes(sub)
Contains(s, sub) ==
    \E i \in 1..(Len(s) - Len(sub) + 1) : SubSeq(s, i, i + Len(sub) - 1) = sub

\* s.endsWith(suffix)
EndsWith(s, suffix) ==
    Len(s) >= Len(suffix) /\ SubSeq(s, Len(s) - Len(suffix) + 1, Len(s)) = suffix

(***************************************************************************)
(* format_number on its own: any cell value in, the text out.              *)
(***************************************************************************)
FmtAlphabet == {"0", "5", "9", ",", ".", "-", "x"}

FmtInputs ==
    {None, StrV(PLACEHOLDER), StrV(<<"dash", "5">>), StrV(<<"kei">>),
     IntV(0), IntV(596), IntV(1234567), IntV(-1250),
     FloatV(<<"1", "2", "3", "4", ".", "5", "6">>), FloatV(<<"0", ".", "0">>),
     FloatV(<<"9", "9", "9", "9", ".", "9", "5">>), FloatV(<<"-", "0", ".", "2", "5">>),
     StrV(<<"1", ",", "2", "3", "4", ",", "5", "6", "7">>),
     StrV(<<"9", "9", "9", ".", "9", "9">>)}
    \cup {StrV(t) : t \in TextsUpTo(FmtAlphabet, MaxStrLen)}

NavOff == pathname = <<>> /\ crossNav = <<>> /\ navRan = FALSE

MainOff ==
    /\ pc = "off" /\ argc = 0 /\ srcExists = FALSE /\ workbook = <<>>
    /\ wbOpen = FALSE /\ readCalled = FALSE /\ sheetIdx = 0 /\ data = <<>>
    /\ destFile = <<>> /\ printed = {} /\ exc = "none" /\ exitStatus = -1

InitFmt == fmtArg \in FmtInputs /\ fmtRet = <<>> /\ NavOff /\ MainOff /\ ViewOff

CallFormatNumber ==
    /\ fmtRet = <<>>
    /\ fmtRet' = <<format_number(fmtArg)>>
    /\ UNCHANGED <<fmtArg, navVars, mainVars, viewVars>>

NextFmt == CallFormatNumber

SpecFmt == InitFmt /\ [][NextFmt]_vars

FmtOff == fmtArg = None /\ fmtRet = <<>>

(***************************************************************************)
(* The cross-navigation script of the generated document.  A pathname is a *)
(* '/' followed by characters; the fragment "koufu" and the extension      *)
(* ".html" are taken as one character each.                                *)
(***************************************************************************)
KOUFU == <<"koufu", ".html">>
KOUFU2 == <<"koufu", "2", ".html">>
KOUFU3 == <<"koufu", "3", ".html">>

PathAlphabet == {"koufu", "2", "3", ".html", "/", "x"}

Pathnames == {<<"/">> \o t : t \in TextsUpTo(PathAlphabet, MaxPathLen)}

\* currentPage.includes('koufu.html') || currentPage.endsWith('/')
\* (Faulty variant: without the endsWith('/') test.)
MatchesKoufu_NoIndex(currentPage) == Contains(currentPage, KOUFU)
MatchesKoufu(currentPage) ==
    Contains(currentPage, KOUFU) \/ EndsWith(currentPage, <<"/">>)

\* The hrefs of the links the script puts in the placeholder; `before` when
\* no branch is taken.
CrossNavLinks(currentPage, before) ==
    IF MatchesKoufu(currentPage) THEN <<KOUFU3, KOUFU2>>
    ELSE IF Contains(currentPage, KOUFU2) THEN <<KOUFU, KOUFU3>>
    ELSE IF Contains(currentPage, KOUFU3) THEN <<KOUFU, KOUFU2>>
    ELSE before

InitNav ==
    /\ pathname \in Pathnames /\ crossNav = <<>> /\ navRan = FALSE
    /\ FmtOff /\ MainOff /\ ViewOff

RunCrossNav ==
    /\ ~navRan
    /\ navRan' = TRUE
    /\ crossNav' = CrossNavLinks(pathname, crossNav)
    /\ UNCHANGED <<pathname, fmtVars, mainVars, viewVars>>

NextNav == RunCrossNav

SpecNav == InitNav /\ [][NextNav]_vars

(***************************************************************************)
(* Worksheets.  A worksheet has its declared extent and a grid of cell     *)
(* values, cells[row][col]; ws.cell(row, col).value reads the grid.        *)
(***************************************************************************)
Cell(ws, row, col) == ws.cells[row][col]

SOUKEI == <<"sou", "kei">>
GOUKEI == <<"gou", "kei">>
KEI == <<"kei">>

\* A Python dict, as the sequence of its items in insertion order:
\* d[key] = val replaces the value of a key already there and appends a new one.
DictSet(d, key, val) ==
    IF \E i \in 1..Len(d) : d[i].key = key
    THEN [i \in 1..Len(d) |-> IF d[i].key = key THEN [key |-> key, val |-> val] ELSE d[i]]
    ELSE Append(d, [key |-> key, val |-> val])

DictKeys(d) == [i \in 1..Len(d) |-> d[i].key]

\* The header loop: str() of every truthy cell of row 1, columns 2..max_column.
RECURSIVE YearsFrom(_, _)
YearsFrom(ws, col) ==
    IF col > ws.max_column THEN <<>>
    ELSE LET year_value == Cell(ws, 1, col)
         IN  (IF Truthy(year_value) THEN <<PyStr(year_value)>> ELSE <<>>)
             \o YearsFrom(ws, col + 1)

\* The inner loop of a body row: one text per column 2..max_column.
RowData(ws, row) ==
    [c \in 1..(ws.max_column - 1) |->
        LET cell_value == Cell(ws, row, c + 1)
        IN  IF cell_value = None \/ cell_value = StrV(<<>>) THEN PLACEHOLDER
            ELSE format_number(cell_value)]

\* '総計' in str(pref_name) or '合計' in str(pref_name)
\* (Faulty variant: the first marker only.)
IsTotalLabel_SoukeiOnly(pref_name) == Contains(PyStr(pref_name), SOUKEI)
IsTotalLabel(pref_name) ==
    Contains(PyStr(pref_name), SOUKEI) \/ Contains(PyStr(pref_name), GOUKEI)

\* The body loop from `row` on; acc holds prefectures and total_row (an
\* option: <<>> for None, <<row_data>> otherwise).
RECURSIVE BodyFrom(_, _, _)
BodyFrom(ws, row, acc) ==
    IF row > ws.max_row THEN acc
    ELSE LET pref_name == Cell(ws, row, 1)
             row_data == RowData(ws, row)
         IN  IF ~Truthy(pref_name) THEN BodyFrom(ws, row + 1, acc)
             ELSE IF IsTotalLabel(pref_name)
                  THEN BodyFrom(ws, row + 1, [acc EXCEPT !.total_row = <<row_data>>])
                  ELSE BodyFrom(ws, row + 1,
                           [acc EXCEPT !.prefectures = DictSet(@, pref_name, row_data)])

\* One pass of the loop over wb.sheetnames: the record stored in data.
SheetRecord(ws) ==
    LET body == BodyFrom(ws, 2, [prefectures |-> <<>>, total_row |-> <<>>])
    IN  [years |-> YearsFrom(ws, 2),
         prefectures |-> body.prefectures,
         total |-> body.total_row]

(***************************************************************************)
(* generate_html: the tab buttons and the panels of the document.          *)
(***************************************************************************)
\* 'active' if i == 0 else ''   (i counts from 0)
\* (Faulty variant: every tab active.)
ActiveClass_All(i) == "active"
ActiveClass(i) == IF i = 0 THEN "active" ELSE ""

\* The class of a year's header cell.
YearHeaderClass(year) == IF year = KEI \/ Contains(year, KEI) THEN "total-col" ELSE ""

\* The class of cell j (from 0) of a row of n cells.
CellClass(j, n) == IF j = n - 1 THEN "total-col" ELSE ""

RowCells(values) ==
    [j \in 1..Len(values) |-> [text |-> values[j], class |-> CellClass(j - 1, Len(values))]]

\* tab_data.get('total') is truthy: neither None nor an empty list.
HasTotal(tab_data) == tab_data.total # <<>> /\ tab_data.total[1] # <<>>

Panel(i, tab_name, tab_data) ==
    [id |-> tab_name,
     class |-> ActiveClass(i),
     from |-> tab_data.years[1],
     to |-> tab_data.years[Len(tab_data.years)],
     header |-> [j \in 1..Len(tab_data.years) |->
                    [text |-> tab_data.years[j], class |-> YearHeaderClass(tab_data.years[j])]],
     rows |-> [r \in 1..Len(tab_data.prefectures) |->
                  [label |-> tab_data.prefectures[r].key,
                   cells |-> RowCells(tab_data.prefectures[r].val)]],
     total |-> IF HasTotal(tab_data) THEN <<RowCells(tab_data.total[1])>> ELSE <<>>]

\* tab_data["years"][0] of some sheet raises IndexError.
RaisesIndexError(d) == \E i \in 1..Len(d) : d[i].val.years = <<>>

Document(d) ==
    [buttons |-> [i \in 1..Len(d) |-> [name |-> d[i].key, class |-> ActiveClass(i - 1)]],
     panels |-> [i \in 1..Len(d) |-> Panel(i - 1, d[i].key, d[i].val)]]

(***************************************************************************)
(* The workbooks the model reads.                                          *)
(***************************************************************************)
CORNER == StrV(<<"todofuken">>)
HOKKAIDO == StrV(<<"hokkai">>)
AOMORI == StrV(<<"aomori">>)

HeaderValues == {None, IntV(2009), StrV(KEI)}
LabelValues == {None, HOKKAIDO, AOMORI, StrV(SOUKEI), StrV(<<"gou", "kei", "ran">>)}
DataValues == {None, IntV(1250)}

\* The body rows of a grid of max_column columns: a label, then the cells.
BodyRows(max_column) ==
    {<<label>> \o cells : label \in LabelValues,
                          cells \in [1..(max_column - 1) -> DataValues]}

\* The grid of the extent max_row x max_column with this header (columns
\* 2..max_column of row 1) and these body rows (rows 2..max_row).
Worksheet(max_row, max_column, header, body) ==
    [max_row |-> max_row, max_column |-> max_column,
     cells |-> <<<<CORNER>> \o header>> \o body]

\* Sample sheets for workbooks of several sheets: a full table with a total
\* row, a sheet with row labels but no period, one with periods but no row,
\* and a blank sheet.
WsFull ==
    [max_row |-> 3, max_column |-> 3,
     cells |-> << <<CORNER, IntV(2009), StrV(KEI)>>,
                  <<HOKKAIDO, IntV(596), IntV(1250)>>,
                  <<StrV(SOUKEI), IntV(596), IntV(1250)>> >>]
WsNoPeriods == [max_row |-> 2, max_column |-> 1, cells |-> << <<CORNER>>, <<HOKKAIDO>> >>]
WsNoRows == [max_row |-> 1, max_column |-> 2, cells |-> << <<CORNER, IntV(2009)>> >>]
WsBlank == [max_row |-> 1, max_column |-> 1, cells |-> << <<None>> >>]

SampleSheets == {WsFull, WsNoPeriods, WsNoRows, WsBlank}
SheetNames == {"EV", "PHEV", "FCV", "V2H"}

\* Workbooks of 1..MaxSheets sheets with distinct names (wb.sheetnames has
\* no duplicates).
SampleWorkbooks ==
    UNION {{wb \in [1..n -> [name : SheetNames, ws : SampleSheets]] :
               \A i, j \in 1..n : wb[i].name = wb[j].name => i = j} : n \in 1..MaxSheets}

(***************************************************************************)
(* main, read_excel_data and generate_html as steps of one run.            *)
(***************************************************************************)
\* len(sys.argv) < 3
\* (Faulty variant: an off-by-one guard.)
TooFewArgs_OneArg(n) == n < 2
TooFewArgs(n) == n < 3

\* not Path(excel_file).exists()
\* (Faulty variant: no existence check.)
SourceMissing_Never(exists) == FALSE
SourceMissing(exists) == ~exists

Init ==
    /\ pc = "main" /\ argc \in 1..MaxArgc /\ srcExists \in BOOLEAN
    /\ workbook = <<>> /\ wbOpen = FALSE /\ readCalled = FALSE /\ sheetIdx = 0
    /\ data = <<>> /\ destFile = <<>> /\ printed = {} /\ exc = "none"
    /\ exitStatus = -1
    /\ FmtOff /\ NavOff /\ ViewOff

\* The process ends with an uncaught exception: a traceback and status 1.
Raise(e) == exc' = e /\ pc' = "exited" /\ exitStatus' = 1

\* main prints the usage text and exits 1.
Usage ==
    /\ pc = "main" /\ TooFewArgs(argc)
    /\ printed' = printed \cup {"usage"}
    /\ pc' = "exited" /\ exitStatus' = 1
    /\ UNCHANGED <<argc, srcExists, workbook, wbOpen, readCalled, sheetIdx, data,
                   destFile, exc, fmtVars, navVars, viewVars>>

\* main reports the missing source and exits 1.
NotFound ==
    /\ pc = "main" /\ ~TooFewArgs(argc) /\ argc >= 3
    /\ SourceMissing(srcExists)
    /\ printed' = printed \cup {"notfound"}
    /\ pc' = "exited" /\ exitStatus' = 1
    /\ UNCHANGED <<argc, srcExists, workbook, wbOpen, readCalled, sheetIdx, data,
                   destFile, exc, fmtVars, navVars, viewVars>>

\* main takes sys.argv[1] and sys.argv[2] (IndexError when they are not
\* there) and, the source being there, goes on to read it.
StartRead ==
    /\ pc = "main" /\ ~TooFewArgs(argc)
    /\ IF argc < 3
       THEN Raise("IndexError") /\ UNCHANGED printed
       ELSE /\ ~SourceMissing(srcExists)
            /\ printed' = printed \cup {"reading"}
            /\ pc' = "read"
            /\ UNCHANGED <<exc, exitStatus>>
    /\ UNCHANGED <<argc, srcExists, workbook, wbOpen, readCalled, sheetIdx, data,
                   destFile, fmtVars, navVars, viewVars>>

\* read_excel_data is entered: openpyxl.load_workbook(excel_file) opens the
\* workbook wb, or fails when there is no such file.
LoadOutcome(wb) ==
    /\ pc = "read"
    /\ readCalled' = TRUE
    /\ IF srcExists
       THEN /\ workbook' = wb
            /\ wbOpen' = TRUE /\ sheetIdx' = 1 /\ pc' = "sheets"
            /\ UNCHANGED <<exc, exitStatus>>
       ELSE /\ Raise("FileNotFoundError")
            /\ UNCHANGED <<workbook, wbOpen, sheetIdx>>
    /\ UNCHANGED <<argc, srcExists, data, destFile, printed, fmtVars, navVars, viewVars>>

\* The source is a workbook of 1..MaxSheets sample sheets.
LoadWorkbook == pc = "read" /\ \E wb \in SampleWorkbooks : LoadOutcome(wb)

\* The source is a workbook of one sheet: any grid up to the extent bound.
LoadLoneSheet ==
    /\ pc = "read"
    /\ \E max_row \in 1..(MaxExtent - 1) :
        \E max_column \in 1..(MaxExtent - max_row) :
            \E header \in [1..(max_column - 1) -> HeaderValues],
               body \in [1..(max_row - 1) -> BodyRows(max_column)] :
                LoadOutcome(<<[name |-> "EV",
                               ws |-> Worksheet(max_row, max_column, header, body)]>>)

\* One pass of `for sheet_name in wb.sheetnames`.
ExtractSheet ==
    /\ pc = "sheets" /\ sheetIdx <= Len(workbook)
    /\ data' = DictSet(data, workbook[sheetIdx].name, SheetRecord(workbook[sheetIdx].ws))
    /\ sheetIdx' = sheetIdx + 1
    /\ UNCHANGED <<pc, argc, srcExists, workbook, wbOpen, readCalled, destFile,
                   printed, exc, exitStatus, fmtVars, navVars, viewVars>>

\* A pass of the loop fails: the exception leaves read_excel_data and main,
\* nothing catching it.
ExtractRaise ==
    /\ pc = "sheets" /\ sheetIdx <= Len(workbook)
    /\ Raise("Exception")
    /\ UNCHANGED <<argc, srcExists, workbook, wbOpen, readCalled, sheetIdx, data,
                   destFile, printed, fmtVars, navVars, viewVars>>

\* After the loop: wb.close(), return data; main prints what was loaded.
CloseWorkbook ==
    /\ pc = "sheets" /\ sheetIdx > Len(workbook)
    /\ wbOpen' = FALSE
    /\ printed' = printed \cup {"loaded"}
    /\ pc' = "generate"
    /\ UNCHANGED <<argc, srcExists, workbook, readCalled, sheetIdx, data, destFile,
                   exc, exitStatus, fmtVars, navVars, viewVars>>

\* generate_html: the document is assembled in memory, then written.
GenerateHtml ==
    /\ pc = "generate"
    /\ IF RaisesIndexError(data)
       THEN Raise("IndexError") /\ UNCHANGED <<destFile, printed>>
       ELSE /\ destFile' = <<Document(data)>>
            /\ printed' = printed \cup {"generated"}
            /\ pc' = "finish"
            /\ UNCHANGED <<exc, exitStatus>>
    /\ UNCHANGED <<argc, srcExists, workbook, wbOpen, readCalled, sheetIdx, data,
                   fmtVars, navVars, viewVars>>

\* main prints the completion message and returns: status 0.
Finish ==
    /\ pc = "finish"
    /\ printed' = printed \cup {"done"}
    /\ pc' = "exited" /\ exitStatus' = 0
    /\ UNCHANGED <<argc, srcExists, workbook, wbOpen, readCalled, sheetIdx, data,
                   destFile, exc, fmtVars, navVars, viewVars>>

Next ==
    \/ Usage
    \/ NotFound
    \/ StartRead
    \/ LoadWorkbook
    \/ ExtractSheet
    \/ ExtractRaise
    \/ CloseWorkbook
    \/ GenerateHtml
    \/ Finish

Spec == Init /\ [][Next]_vars

(***************************************************************************)
(* The conversion of a workbook of one sheet, from the call of             *)
(* read_excel_data on: every grid up to the extent bound.                  *)
(***************************************************************************)
InitSheet ==
    /\ pc = "read" /\ argc = 3 /\ srcExists = TRUE
    /\ workbook = <<>> /\ wbOpen = FALSE /\ readCalled = FALSE /\ sheetIdx = 0
    /\ data = <<>> /\ destFile = <<>> /\ printed = {"reading"} /\ exc = "none"
    /\ exitStatus = -1
    /\ FmtOff /\ NavOff /\ ViewOff

NextSheet ==
    \/ LoadLoneSheet
    \/ ExtractSheet
    \/ ExtractRaise
    \/ CloseWorkbook
    \/ GenerateHtml
    \/ Finish

SpecSheet == InitSheet /\ [][NextSheet]_vars

(***************************************************************************)
(* The written document open in a viewer: the tab buttons, the panels, the *)
(* click handler showTab, its deferred scroll and the load handler, run    *)
(* one at a time by the viewer's event loop.                               *)
(***************************************************************************)
APOSTROPHE == "'"
CROSS_NAV == <<"cross-nav">>

\* Sheet names as texts: two plain ones, one with an apostrophe inside, and
\* the id the document's navigation placeholder already has.
ViewerNames == {<<"EV">>, <<"PHEV">>, <<"Q1", APOSTROPHE, "24">>, CROSS_NAV}

\* Workbook data of sheets with these names, as read_excel_data returns it.
ViewerData(names) ==
    [i \in 1..Len(names) |-> [key |-> names[i], val |-> SheetRecord(WsFull)]]

\* The text of a button's onclick attribute: the name is put between two
\* apostrophes as it is.
OnclickSource(tab_name) ==
    <<"showTab(event, ", APOSTROPHE>> \o tab_name \o <<APOSTROPHE, ")">>

\* The handler the viewer compiles from that text: the string literal
\* opened by the first apostrophe ends at the next one, and the call is
\* well-formed when only the closing parenthesis follows.  <<tabName>> is
\* the argument of the compiled call, <<>> a SyntaxError (no handler).
HandlerArg(src) ==
    LET closing == CHOOSE j \in 3..Len(src) :
                       /\ src[j] = APOSTROPHE
                       /\ \A k \in 3..(j - 1) : src[k] # APOSTROPHE
    IN  IF closing = Len(src) - 1 THEN <<SubSeq(src, 3, closing - 1)>> ELSE <<>>

\* document.getElementById(id): the first element with that id in document
\* order, the navigation placeholder (0) coming before the panels (1..);
\* <<>> is null.
ElementById(doc, id) ==
    IF id = CROSS_NAV THEN <<0>>
    ELSE IF \E p \in 1..Len(doc.panels) : doc.panels[p].id = id
    THEN <<CHOOSE p \in 1..Len(doc.panels) :
               /\ doc.panels[p].id = id
               /\ \A q \in 1..(p - 1) : doc.panels[q].id # id>>
    ELSE <<>>

\* document.querySelector("#" + tabName + " .table-wrapper"): the wrapper
\* of the first panel with that id (the placeholder has no wrapper inside).
QueryWrapper(doc, tabName) ==
    IF \E p \in 1..Len(doc.panels) : doc.panels[p].id = tabName
    THEN <<CHOOSE p \in 1..Len(doc.panels) :
               /\ doc.panels[p].id = tabName
               /\ \A q \in 1..(p - 1) : doc.panels[q].id # tabName>>
    ELSE <<>>

\* The loops that remove 'active' from every element of a class.
ClearActive(active, elements) == active \ elements

\* tableWrapper.scrollLeft = tableWrapper.scrollWidth on the wrapper of
\* panel p: a panel that is not displayed has no scrolling box.
ScrollToEnd(scroll, shown, p) ==
    IF p \in shown THEN [scroll EXCEPT ![p] = "end"] ELSE scroll

InitViewer ==
    /\ \E n \in 1..MaxSheets : \E names \in [1..n -> ViewerNames] :
           /\ \A i, j \in 1..n : names[i] = names[j] => i = j
           /\ viewDoc = Document(ViewerData(names))
    /\ activeButtons = {b \in 1..Len(viewDoc.buttons) : viewDoc.buttons[b].class = "active"}
    /\ activePanels = {p \in 1..Len(viewDoc.panels) : viewDoc.panels[p].class = "active"}
    /\ scrollLeft = [p \in 1..Len(viewDoc.panels) |-> "start"]
    /\ timers = <<>> /\ lastClicked = 0 /\ loaded = FALSE
    /\ FmtOff /\ NavOff /\ MainOff

\* A click on button b whose onclick text does not compile: nothing runs.
ClickBroken(b) ==
    /\ Len(timers) < MaxTimers
    /\ b \in 1..Len(viewDoc.buttons)
    /\ HandlerArg(OnclickSource(viewDoc.buttons[b].name)) = <<>>
    /\ lastClicked' = b
    /\ UNCHANGED <<viewDoc, activeButtons, activePanels, scrollLeft, timers, loaded>>
    /\ UNCHANGED <<fmtVars, navVars, mainVars>>

\* A click on button b: showTab(event, tabName).  The viewer may or may not
\* keep the scroll position of a panel that stops being displayed.
ClickTab(b) ==
    /\ Len(timers) < MaxTimers
    /\ b \in 1..Len(viewDoc.buttons)
    /\ HandlerArg(OnclickSource(viewDoc.buttons[b].name)) # <<>>
    /\ LET tabName == HandlerArg(OnclickSource(viewDoc.buttons[b].name))[1]
           element == ElementById(viewDoc, tabName)
           panels == ClearActive(activePanels, 1..Len(viewDoc.panels))
           buttons == ClearActive(activeButtons, 1..Len(viewDoc.buttons))
       IN  /\ lastClicked' = b
           /\ IF element = <<>>
              THEN \* TypeError at getElementById(...).classList
                   /\ activePanels' = panels
                   /\ activeButtons' = buttons
                   /\ timers' = timers
              ELSE /\ activePanels' = panels \cup ({element[1]} \ {0})
                   /\ activeButtons' = buttons \cup {b}
                   /\ timers' = Append(timers, tabName)
           /\ \E keeps \in BOOLEAN :
                  scrollLeft' = [p \in 1..Len(viewDoc.panels) |->
                                    IF keeps \/ p \in activePanels'
                                    THEN scrollLeft[p] ELSE "start"]
    /\ UNCHANGED <<viewDoc, loaded>>
    /\ UNCHANGED <<fmtVars, navVars, mainVars>>

\* The k-th pending callback of setTimeout runs.
TimerFires(k) ==
    /\ k \in 1..Len(timers)
    /\ LET tableWrapper == QueryWrapper(viewDoc, timers[k])
       IN  scrollLeft' = IF tableWrapper # <<>>
                         THEN ScrollToEnd(scrollLeft, activePanels, tableWrapper[1])
                         ELSE scrollLeft
    /\ timers' = SubSeq(timers, 1, k - 1) \o SubSeq(timers, k + 1, Len(timers))
    /\ UNCHANGED <<viewDoc, activeButtons, activePanels, lastClicked, loaded>>
    /\ UNCHANGED <<fmtVars, navVars, mainVars>>

\* The window's load event: the wrapper of the first active panel.
LoadEvent ==
    /\ ~loaded
    /\ loaded' = TRUE
    /\ scrollLeft' = IF activePanels # {}
                     THEN ScrollToEnd(scrollLeft, activePanels,
                                      CHOOSE p \in activePanels :
                                          \A q \in activePanels : p <= q)
                     ELSE scrollLeft
    /\ UNCHANGED <<viewDoc, activeButtons, activePanels, timers, lastClicked>>
    /\ UNCHANGED <<fmtVars, navVars, mainVars>>

NextViewer ==
    \/ \E b \in 1..MaxSheets : ClickTab(b)
    \/ \E b \in 1..MaxSheets : ClickBroken(b)
    \/ \E k \in 1..MaxTimers : TimerFires(k)
    \/ LoadEvent

SpecViewer == InitViewer /\ [][NextViewer]_vars

(***************************************************************************)
(*                              The claims                                 *)
(***************************************************************************)

\* The sheet records read_excel_data has stored, each with its worksheet.
Records == {[rec |-> data[i].val, ws |-> workbook[i].ws] : i \in 1..Len(data)}

\* C1: in every sheet record, every row of 'prefectures' has as many values
\* as 'years' has labels, and so has 'total' when it is not None.
C1_RowLengthsEqualYears ==
    \A x \in Records :
        /\ \A r \in 1..Len(x.rec.prefectures) :
               Len(x.rec.prefectures[r].val) = Len(x.rec.years)
        /\ x.rec.total # <<>> => Len(x.rec.total[1]) = Len(x.rec.years)

\* C2: in every table of the written document the header cell of the last
\* period, and only that one, has the class 'total-col'.
C2_LastHeaderIsTotalCol ==
    destFile # <<>> =>
        \A p \in 1..Len(destFile[1].panels) :
            LET header == destFile[1].panels[p].header
            IN  \A j \in 1..Len(header) :
                    (header[j].class = "total-col") <=> (j = Len(header))

\* The run printed the usage text and stopped with status 1 before reading
\* the source or writing the destination.
UsageAndNothingElse ==
    /\ pc \in {"main", "exited"}
    /\ ~readCalled /\ destFile = <<>>
    /\ pc = "exited" => exitStatus = 1 /\ "usage" \in printed

\* C3, as claimed: with any number of positional arguments other than two
\* (len(sys.argv) # 3) main prints the usage text and exits 1 without
\* reading the source or writing the destination.
C3_AnyOtherArgCount == argc # 3 => UsageAndNothingElse

\* C3, amended: with fewer than two positional arguments main prints the
\* usage text and exits 1 without reading the source or writing the
\* destination; with two or more it never prints the usage text.
C3_FewerThanTwoArgs ==
    /\ argc < 3 => UsageAndNothingElse
    /\ argc >= 3 => "usage" \notin printed

\* C3 witness: one positional argument, an existing source, the run over.
C3_Witness ==
    argc = 2 /\ srcExists /\ pc = "exited" /\ exitStatus = 1 /\ "usage" \in printed

\* C4: with two arguments and no source file the run ends with status 1,
\* read_excel_data is never called and the destination is never written.
C4_MissingSourceStopsRun ==
    (argc = 3 /\ ~srcExists) =>
        /\ pc \in {"main", "exited"}
        /\ ~readCalled /\ destFile = <<>>
        /\ pc = "exited" => exitStatus = 1 /\ "notfound" \in printed

\* C4 witness: such a run, over.
C4_Witness ==
    argc = 3 /\ ~srcExists /\ pc = "exited" /\ exitStatus = 1 /\ ~readCalled

\* A sheet record with no period, or with no data row.
EmptyRecord(rec) == rec.years = <<>> \/ rec.prefectures = <<>>

\* C5: when extraction has gone through a workbook with a sheet of no
\* period or no data row, the conversion does not fail: the destination is
\* written and the run completes with status 0.
C5_EmptySheetNotRejected ==
    (/\ pc \in {"finish", "exited"}
     /\ readCalled /\ ~wbOpen /\ Len(data) > 0
     /\ \E x \in Records : EmptyRecord(x.rec)) =>
        /\ exc = "none"
        /\ destFile # <<>>
        /\ pc = "exited" => exitStatus = 0

\* The body rows of a worksheet whose label is not empty, and those among
\* them whose label holds a total marker.
LabelledRows(ws) ==
    {r \in 2..ws.max_row : Cell(ws, r, 1) # None /\ Cell(ws, r, 1) # StrV(<<>>)}
MarkerRows(ws) ==
    {r \in LabelledRows(ws) : \/ Contains(PyStr(Cell(ws, r, 1)), SOUKEI)
                              \/ Contains(PyStr(Cell(ws, r, 1)), GOUKEI)}
FirstRowOf(ws, label) ==
    CHOOSE r \in LabelledRows(ws) :
        /\ Cell(ws, r, 1) = label
        /\ \A q \in LabelledRows(ws) : Cell(ws, q, 1) = label => r <= q

\* C6: a row whose label holds a total marker is never in 'prefectures';
\* the labels of 'prefectures' are those of the other labelled rows, each
\* once, in the order of their first appearance, each with the values of a
\* row of that label; 'total' is None when no row matches and else holds
\* the values of the last matching row.
C6_TotalRowAndRowOrder ==
    \A x \in Records :
        LET keys == DictKeys(x.rec.prefectures)
            plain == LabelledRows(x.ws) \ MarkerRows(x.ws)
        IN  /\ \A k \in 1..Len(keys) :
                   \A r \in MarkerRows(x.ws) : keys[k] # Cell(x.ws, r, 1)
            /\ {keys[k] : k \in 1..Len(keys)} = {Cell(x.ws, r, 1) : r \in plain}
            /\ \A k, l \in 1..Len(keys) :
                   k < l => FirstRowOf(x.ws, keys[k]) < FirstRowOf(x.ws, keys[l])
            /\ \A k \in 1..Len(keys) :
                   \E r \in plain : /\ Cell(x.ws, r, 1) = keys[k]
                                    /\ x.rec.prefectures[k].val = RowData(x.ws, r)
            /\ IF MarkerRows(x.ws) = {} THEN x.rec.total = <<>>
               ELSE \E r \in MarkerRows(x.ws) :
                        /\ \A q \in MarkerRows(x.ws) : q <= r
                        /\ x.rec.total = <<RowData(x.ws, r)>>

\* C6 witness: a sheet of one data column with a prefecture row and, after
\* it, two total rows of different values has been extracted: the last wins.
C6_Witness ==
    /\ Len(data) = 1 /\ pc = "generate"
    /\ workbook[1].ws.max_row = 4 /\ workbook[1].ws.max_column = 2
    /\ Cell(workbook[1].ws, 2, 1) = AOMORI
    /\ Cell(workbook[1].ws, 3, 1) = StrV(SOUKEI)
    /\ Cell(workbook[1].ws, 3, 2) = IntV(1250)
    /\ Cell(workbook[1].ws, 4, 1) = StrV(<<"gou", "kei", "ran">>)
    /\ Cell(workbook[1].ws, 4, 2) = None
    /\ DictKeys(data[1].val.prefectures) = <<AOMORI>>
    /\ data[1].val.total = << <<PLACEHOLDER>> >>

\* C7: the tab buttons and the panels of the written document list the
\* sheets in the workbook's sheet order, one of each per sheet, and 'active'
\* is on the first button and the first panel and on no other.
C7_TabsInSheetOrder ==
    destFile # <<>> =>
        LET doc == destFile[1]
        IN  /\ Len(doc.buttons) = Len(workbook) /\ Len(doc.panels) = Len(workbook)
            /\ \A i \in 1..Len(workbook) :
                   /\ doc.buttons[i].name = workbook[i].name
                   /\ doc.panels[i].id = workbook[i].name
                   /\ (doc.buttons[i].class = "active") <=> (i = 1)
                   /\ (doc.panels[i].class = "active") <=> (i = 1)

\* C7 witness: a document of three sheets, not in alphabetical order.
C7_Witness ==
    /\ destFile # <<>> /\ Len(workbook) = 3
    /\ workbook[1].name = "PHEV" /\ workbook[2].name = "FCV" /\ workbook[3].name = "EV"

\* The parts of a formatted number: its sign, the text before the point and
\* the text after it.
OutNegative(out) == out # <<>> /\ Head(out) = "-"
OutBody(out) == IF OutNegative(out) THEN Tail(out) ELSE out
OutWhole(out) ==
    IF IndexOfPoint(OutBody(out)) = 0 THEN OutBody(out)
    ELSE SubSeq(OutBody(out), 1, IndexOfPoint(OutBody(out)) - 1)
OutDecimals(out) ==
    IF IndexOfPoint(OutBody(out)) = 0 THEN <<>>
    ELSE SubSeq(OutBody(out), IndexOfPoint(OutBody(out)) + 1, Len(OutBody(out)))

\* Digits with a comma before every group of three from the right and
\* nowhere else, and no leading zero.
ThousandsSeparated(g) ==
    /\ g # <<>> /\ g[1] # ","
    /\ Len(g) > 1 => g[1] # "0"
    /\ \A i \in 1..Len(g) :
           IF (Len(g) - i + 1) % 4 = 0 THEN g[i] = "," ELSE g[i] \in Digits

IsBlankInput(value) == value = None \/ value = StrV(<<>>) \/ value = StrV(PLACEHOLDER)

\* C8: format_number returns the placeholder for a blank input (never "0"
\* or ""); the text unchanged when it does not read as a number; and for a
\* number its value with thousands separators, without a point when it is
\* whole and rounded to exactly one decimal when it has a fraction.
C8_FormatNumber ==
    fmtRet # <<>> =>
        LET out == fmtRet[1]
            num == PyFloat(RemoveCommas(PyStr(fmtArg)))
            tenths == 10 * StrToNat(num.ip)
                      + (IF num.fp = <<>> THEN 0 ELSE DigitVal(num.fp[1]))
            half == CompareHalf(IF num.fp = <<>> THEN <<>> ELSE Tail(num.fp))
            shown == 10 * StrToNat(RemoveCommas(OutWhole(out)))
                     + StrToNat(OutDecimals(out))
        IN  IF IsBlankInput(fmtArg)
            THEN out = PLACEHOLDER /\ out # <<"0">> /\ out # <<>>
            ELSE IF ~num.ok THEN out = PyStr(fmtArg)
            ELSE /\ ThousandsSeparated(OutWhole(out))
                 /\ IF \A i \in 1..Len(num.fp) : num.fp[i] = "0"
                    THEN /\ ~Contains(out, <<".">>)
                         /\ shown = tenths
                         /\ OutNegative(out) <=> (num.neg /\ tenths # 0)
                    ELSE /\ IndexOfPoint(OutBody(out)) # 0
                         /\ Len(OutDecimals(out)) = 1
                         /\ OutDecimals(out)[1] \in Digits
                         /\ shown \in {tenths, tenths + 1}
                         /\ shown = tenths => half <= 0
                         /\ shown = tenths + 1 => half >= 0
                         /\ OutNegative(out) <=> num.neg

\* C8 witness: the float 1234.56 has been formatted as "1,234.6".
C8_Witness ==
    /\ fmtArg = FloatV(<<"1", "2", "3", "4", ".", "5", "6">>)
    /\ fmtRet = << <<"1", ",", "2", "3", "4", ".", "6">> >>

NoFragment(path) ==
    ~Contains(path, KOUFU) /\ ~Contains(path, KOUFU2) /\ ~Contains(path, KOUFU3)

\* C9, as claimed: once the script has run, the placeholder is empty for
\* every pathname that holds none of the three fragments, and is populated
\* only when the pathname holds one of them.
C9_EmptyWithoutFragment ==
    navRan => /\ NoFragment(pathname) => crossNav = <<>>
              /\ crossNav # <<>> => ~NoFragment(pathname)

\* C9, amended: once the script has run, the placeholder is empty exactly
\* when the pathname holds none of the three fragments and does not end
\* with '/'; a pathname ending with '/' or holding 'koufu.html' gets the
\* links to koufu3.html and koufu2.html, and any other pathname holding a
\* fragment gets the links to the other two documents.
C9_EmptyUnlessFragmentOrIndex ==
    navRan =>
        /\ crossNav = <<>> <=> (NoFragment(pathname) /\ ~EndsWith(pathname, <<"/">>))
        /\ (Contains(pathname, KOUFU) \/ EndsWith(pathname, <<"/">>))
               => crossNav = <<KOUFU3, KOUFU2>>
        /\ (~Contains(pathname, KOUFU) /\ ~EndsWith(pathname, <<"/">>)
            /\ Contains(pathname, KOUFU2)) => crossNav = <<KOUFU, KOUFU3>>
        /\ (~Contains(pathname, KOUFU) /\ ~EndsWith(pathname, <<"/">>)
            /\ ~Contains(pathname, KOUFU2) /\ Contains(pathname, KOUFU3))
               => crossNav = <<KOUFU, KOUFU2>>

\* C9 witness: the script has run on a directory pathname without any
\* fragment and has populated the placeholder.
C9_Witness ==
    /\ navRan /\ pathname = <<"/", "x", "/">> /\ NoFragment(pathname)
    /\ crossNav = <<KOUFU3, KOUFU2>>

\* C10: once read_excel_data has been left, normally or by an exception,
\* the workbook handle is closed.
C10_WorkbookClosedOnLeave ==
    (readCalled /\ pc \notin {"read", "sheets"}) => ~wbOpen

\* The sheet the viewer should show: the one clicked last, else the first.
ExpectedSheet == IF lastClicked = 0 THEN 1 ELSE lastClicked

\* C11: in a document with at least one sheet, at the start and after any
\* clicks, load events and deferred-scroll callbacks, exactly one panel and
\* exactly one tab button are active, both of the sheet clicked last, or of
\* the first sheet when no tab has been clicked.
C11_OneActiveSheet ==
    Len(viewDoc.panels) >= 1 =>
        /\ activePanels = {ExpectedSheet}
        /\ activeButtons = {ExpectedSheet}

\* The second half of C11: a deferred-scroll callback leaves the active
\* panel and button alone and moves no wrapper but the one of the panel
\* its click named.
C11_CallbackOnlyScrolls ==
    [][Len(timers') < Len(timers) =>
           /\ activePanels' = activePanels /\ activeButtons' = activeButtons
           /\ \E k \in 1..Len(timers) :
                  \A p \in 1..Len(viewDoc.panels) :
                      viewDoc.panels[p].id # timers[k] => scrollLeft'[p] = scrollLeft[p]]_vars

\* The sheet names that are identifiers and clash with no id of the page.
SafeName(name) == Len(name) = 1 /\ name # CROSS_NAV

\* With safe names only, the first half of C11 holds.
C11_OneActiveSheetSafeNames ==
    (\A b \in 1..Len(viewDoc.buttons) : SafeName(viewDoc.buttons[b].name))
        => C11_OneActiveSheet

\* A click on a safe name has switched sheets and a callback of the first
\* sheet is still pending.
C11_SafeWitness ==
    /\ Len(viewDoc.buttons) = 2
    /\ \A b \in 1..2 : SafeName(viewDoc.buttons[b].name)
    /\ lastClicked = 2 /\ activePanels = {2} /\ loaded
    /\ timers = <<viewDoc.buttons[1].name>> /\ scrollLeft[2] = "end"

====
